---- MODULE Spec2Model ----
(***************************************************************************)
(* Model of utils/training.py: save_checkpoint, load_checkpoint, train_fn, *)
(* validation_fn and train_model.                                          *)
(*                                                                         *)
(* A caller invokes train_model or validation_fn from "idle"; every        *)
(* function runs statement block by statement block (pc), and a raised     *)
(* exception unwinds to the caller (pc = "idle", outcome = "raised").      *)
(*                                                                         *)
(* Values produced by the tensor library are modelled by small integers:   *)
(* the model's parameters are one integer, a batch is a record of inputs   *)
(* and targets, a mean is the exact fraction [num, den].  A loader is a    *)
(* torch DataLoader: a sized collection whose every pass yields the same   *)
(* batches; it is falsy when it has no batch.                              *)
(***************************************************************************)
EXTENDS Integers, Sequences, FiniteSets, TLC

VARIABLES
    pc,              \* position in the running function, "idle" between calls
    entry,           \* the function the caller invoked last
    outcome,         \* "none" | "returned" | "raised" for the last call
    error,           \* [type, key, in_fn] of the exception that was raised
    calls,           \* number of top-level calls made so far
    args,            \* arguments of the train_model call
    params,          \* model.state_dict(): the learned parameters
    mode,            \* model.training: "train" | "eval"
    opt_state,       \* optimizer.state_dict(): steps taken by this optimizer
    grad,            \* gradient held by the parameters
    disk,            \* artifacts on disk: set of [name, state_dict, optimizer]
    history,         \* train_model: key -> list of per-epoch values
    metrics,         \* train_model / train_fn: key -> accumulator
    train_metrics,   \* train_model: what train_fn returned
    epoch,           \* train_model: index of the running epoch
    num_batches,     \* train_fn
    epoch_loss_cum,  \* train_fn
    batch_idx,       \* train_fn: batches taken from the training pass
    predictions,     \* train_fn
    loss,            \* train_fn
    vargs,           \* arguments of the validation_fn call
    num_correct,     \* validation_fn
    num_pixels,      \* validation_fn
    dice_score,      \* validation_fn
    vidx,            \* validation_fn: batches taken from the loader
    val_result,      \* what validation_fn returned: [accu, dice]
    trace,           \* observed: events of the train_model run, in order
    ops,             \* observed: library calls made for the current batch
    tf_log,          \* observed: per-batch record of the train_fn call
    epoch_logs,      \* observed: tf_log of every finished epoch
    vf_log,          \* observed: per-batch record of the validation_fn call
    vf_entry,        \* observed: parameters and optimizer at validation entry
    written          \* observed: artifact names written by the last save

callVars  == <<pc, entry, outcome, error, calls, args>>
modelVars == <<params, mode, opt_state, grad>>
tmVars    == <<history, metrics, train_metrics, epoch>>
tfVars    == <<num_batches, epoch_loss_cum, batch_idx, predictions, loss>>
vfVars    == <<vargs, num_correct, num_pixels, dice_score, vidx, val_result>>
obsVars   == <<trace, ops, tf_log, epoch_logs, vf_log, vf_entry, written>>
vars == <<callVars, modelVars, disk, tmVars, tfVars, vfVars, obsVars>>

----------------------------------------------------------------------------
(* Bounds *)

MaxCalls == 2
MaxEpochs == 2
MaxTime == 2

----------------------------------------------------------------------------
(* Python values *)

None == [tag |-> "None", s |-> <<>>]
Str(s) == [tag |-> "str", s |-> s]

\* truth value of None / a string: `if not filename`
truthy(v) == v.tag = "str" /\ v.s # <<>>

\* f"{v}": None is formatted as the text None
format(v) == IF v.tag = "None" THEN <<"None">> ELSE v.s

NoLoader == [tag |-> "None", batches |-> <<>>]
Loader(bs) == [tag |-> "loader", batches |-> bs]

\* len(loader)
len(loader) == Len(loader.batches)

\* truth value of a loader: None is falsy, a loader is truthy iff len > 0
loader_truthy(loader) == loader.tag = "loader" /\ len(loader) > 0

Range(seq) == {seq[i] : i \in 1..Len(seq)}

RECURSIVE SumSeq(_)
SumSeq(seq) == IF seq = <<>> THEN 0 ELSE seq[1] + SumSeq(Tail(seq))

\* exact value of a Python float: a fraction
Frac(n, d) == [num |-> n, den |-> d]
Zero == Frac(0, 1)

\* a += v
frac_add(a, v) == Frac(a.num + v * a.den, a.den)

\* a /= n   (n # 0)
frac_div(a, n) == Frac(a.num, a.den * n)

FracEq(a, b) == a.den # 0 /\ b.den # 0 /\ a.num * b.den = b.num * a.den

NoError == [type |-> "", key |-> "", in_fn |-> ""]
Err(t, k, f) == [type |-> t, key |-> k, in_fn |-> f]


----------------------------------------------------------------------------
(* The tensor library and the caller-supplied callables, on small values *)

\* raw outputs of the network, in hundredths
RawOut == <<-100, 0, 50, 100>>

\* model(x) for one pixel: depends on the parameters and the input
Forward(p, x) == RawOut[((x + p) % Len(RawOut)) + 1]

\* model(data) for a batch
model_call(p, data) == [i \in 1..Len(data) |-> Forward(p, data[i])]

\* torch.sigmoid, in percent
sigmoid(z) == CASE z = -100 -> 27 [] z = 0 -> 50 [] z = 50 -> 62 [] z = 100 -> 73

\* predictions.shape == targets.shape
same_shape(preds, targets) == Len(preds) = Len(targets)

\* nn.BCEWithLogitsLoss on a batch: one unit per pixel, three when it is wrong
loss_fn(preds, targets) ==
    SumSeq([i \in 1..Len(preds) |->
              IF (preds[i] > 0) = (targets[i] = 1) THEN 1 ELSE 3])

\* metrics_fn[key](predictions, targets).item()
metric_fn(key, preds, targets) ==
    CASE key = "accuracy" ->
            SumSeq([i \in 1..Len(preds) |->
                      IF (preds[i] > 0) = (targets[i] = 1) THEN 1 ELSE 0])
      [] key = "dice" ->
            SumSeq([i \in 1..Len(preds) |->
                      IF preds[i] > 0 /\ targets[i] = 1 THEN 2 ELSE 0])
      [] OTHER -> 5

\* optimizer.zero_grad()
zero_grad(g) == 0

\* scaler.scale(loss).backward(): gradients accumulate into .grad
backward(g, l) == g + l

\* scaler.step(optimizer): the parameters move along the gradient
optimizer_step(p, g) == p + g

----------------------------------------------------------------------------
(* Inputs *)

B1 == [data |-> <<0, 1>>, targets |-> <<1, 0>>]
B2 == [data |-> <<2>>, targets |-> <<1>>]
BadShape == [data |-> <<0, 1>>, targets |-> <<1>>]

TrainLoaders ==
    {Loader(<<>>), Loader(<<B1>>), Loader(<<B1, B2>>), Loader(<<B2, BadShape>>)}

ValLoaders == {NoLoader, Loader(<<>>), Loader(<<B2>>), Loader(<<B1, B2>>)}

\* <<metrics, keys of metrics_fn>>
MetricsChoices ==
    { <<<< >>, {}>>,
      <<<< >>, {"dice"}>>,
      <<<<"accuracy", "dice">>, {"accuracy", "dice"}>>,
      <<<<"dice", "iou">>, {"dice"}>>,
      <<<<"dice", "loss">>, {"dice", "loss"}>> }

OutDir == <<"out", "/">>

\* <<save_model, save_checkpoint_path, save_checkpoint_name>>
SaveChoices ==
    { <<FALSE, None, None>>,
      <<TRUE, None, None>>,
      <<TRUE, Str(OutDir), None>>,
      <<TRUE, Str(<<"out">>), Str(<< >>)>>,
      <<TRUE, Str(OutDir), Str(<<"best.pth">>)>>,
      <<TRUE, Str(OutDir), Str(OutDir \o <<"best.pth">>)>> }

\* <<load_model, load_checkpoint_path>>
LoadChoices(d) ==
    {<<FALSE, None>>, <<TRUE, None>>, <<TRUE, Str(<<"missing.pth">>)>>}
        \cup {<<TRUE, Str(f.name)>> : f \in d}

Modes == {"train", "eval"}

\* thresholds, in percent
DefaultThresh == 50
Threshes == {DefaultThresh, 62}

MkArgs(tl, vl, n, mc, sc, lc) ==
    [train_loader |-> tl, val_loader |-> vl, epochs |-> n,
     metrics |-> mc[1], metrics_fn |-> mc[2],
     save_model |-> sc[1], save_checkpoint_path |-> sc[2],
     save_checkpoint_name |-> sc[3],
     load_model |-> lc[1], load_checkpoint_path |-> lc[2]]

\* the first call draws from every input set; a later call trains one epoch
\* on one batch, with or without validation, a save, and the load of any
\* artifact earlier calls left
TrainModelArgs(c, d) ==
    IF c = 0
    THEN {MkArgs(tl, vl, n, mc, sc, lc) :
            tl \in TrainLoaders, vl \in ValLoaders, n \in 0..MaxEpochs,
            mc \in MetricsChoices, sc \in SaveChoices, lc \in LoadChoices(d)}
    ELSE {MkArgs(Loader(<<B2>>), vl, 1, mc, sc, lc) :
            vl \in {NoLoader, Loader(<<B2>>)},
            mc \in {<<<< >>, {}>>, <<<<"accuracy", "dice">>, {"accuracy", "dice"}>>},
            sc \in {<<FALSE, None, None>>, <<TRUE, Str(OutDir), None>>},
            lc \in LoadChoices(d)}

NoArgs ==
    MkArgs(Loader(<<>>), NoLoader, 0, <<<< >>, {}>>, <<FALSE, None, None>>, <<FALSE, None>>)

ValidationArgs ==
    [loader : ValLoaders \ {NoLoader}, from_logits : BOOLEAN,
     thresh : Threshes, metrics_fn : {{}, {"dice"}}]

NoVArgs ==
    [loader |-> Loader(<<>>), from_logits |-> TRUE, thresh |-> DefaultThresh,
     metrics_fn |-> {}]


----------------------------------------------------------------------------
(* Checkpoint I/O *)

Suffix == "-model_checkpoint.pth.tar"

\* datetime.today().strftime("%Y.%m.%d@%H-%M-%S"): the text of clock reading t
strftime(t) == "2024.01.01@00-00-0" \o ToString(t)

\* variant of checkpoint_name: the timestamped name under dirname is used
\* whether or not a filename is given
checkpoint_name_ignoring_filename(dirname, filename, t) ==
    format(dirname) \o <<strftime(t) \o Suffix>>

\* save_checkpoint: the name the state is written at
checkpoint_name(dirname, filename, t) ==
    IF ~truthy(filename)
    THEN format(dirname) \o <<strftime(t) \o Suffix>>
    ELSE filename.s

\* torch.save(state, filename): the artifact is created or overwritten
torch_save(d, name, state) ==
    {f \in d : f.name # name}
        \cup {[name |-> name, state_dict |-> state.state_dict,
               optimizer |-> state.optimizer]}

\* torch.load(path) succeeds on a string naming an artifact
can_load(d, path) == path.tag = "str" /\ \E f \in d : f.name = path.s

torch_load(d, path) == CHOOSE f \in d : f.name = path.s

\* load_checkpoint: the parameters of the model after the call
load_checkpoint(checkpoint, p) == checkpoint.state_dict

----------------------------------------------------------------------------
(* train_model *)

EmptyDict == [k \in {} |-> Zero]

\* the keys of the tuple `metrics`, as dict.fromkeys reads them
tuple_keys(t) == [k \in Range(t) |-> Zero]

\* variant of reset_metrics: the accumulators keep the last epoch's values
reset_metrics_keep(m) == m

\* dict.fromkeys(metrics, 0)
reset_metrics(m) == [k \in DOMAIN m |-> Zero]

\* history before the epoch loop
init_history(mkeys, val_loader) ==
    LET train_keys == {"loss"} \cup mkeys
        val_keys == IF loader_truthy(val_loader)
                    THEN {"val_" \o k : k \in train_keys}
                    ELSE {}
    IN [k \in train_keys \cup val_keys |-> << >>]

\* variant of range_has_next: one epoch too many
range_has_next_inclusive(e, n) == e <= n

\* for epoch in range(epochs): another epoch follows
range_has_next(e, n) == e < n

Raise(e) ==
    /\ pc' = "idle"
    /\ outcome' = "raised"
    /\ error' = e

ResetLocals ==
    /\ train_metrics' = EmptyDict
    /\ epoch' = 0
    /\ num_batches' = 0
    /\ epoch_loss_cum' = 0
    /\ batch_idx' = 0
    /\ predictions' = << >>
    /\ loss' = 0
    /\ num_correct' = 0
    /\ num_pixels' = 0
    /\ dice_score' = 0
    /\ vidx' = 0
    /\ val_result' = [accu |-> Zero, dice |-> Zero]
    /\ ops' = << >>
    /\ tf_log' = << >>
    /\ epoch_logs' = << >>
    /\ vf_log' = << >>
    /\ vf_entry' = [params |-> 0, opt_state |-> 0]
    /\ written' = << >>

\* lines 200-225: the model passed in, a new optimizer, the optional load,
\* and the empty history
train_model_begin ==
    /\ pc = "idle"
    /\ calls < MaxCalls
    /\ \E a \in TrainModelArgs(calls, disk), m \in Modes, fresh \in BOOLEAN :
         LET p0 == IF fresh THEN 0 ELSE params
             loads == a.load_model
         IN /\ args' = a
            /\ entry' = "train_model"
            /\ calls' = calls + 1
            /\ mode' = m
            /\ grad' = 0
            /\ metrics' = tuple_keys(a.metrics)
            /\ vargs' = NoVArgs
            /\ ResetLocals
            /\ IF loads /\ ~can_load(disk, a.load_checkpoint_path)
               THEN /\ Raise(Err("FileNotFoundError", "", "train_model"))
                    /\ params' = p0
                    /\ opt_state' = 0
                    /\ history' = EmptyDict
                    /\ trace' = << >>
               ELSE /\ params' =
                         IF loads
                         THEN load_checkpoint(
                                  torch_load(disk, a.load_checkpoint_path), p0)
                         ELSE p0
                    /\ opt_state' = 0
                    /\ trace' = IF loads THEN <<"load">> ELSE << >>
                    /\ history' = init_history(Range(a.metrics), a.val_loader)
                    /\ pc' = "tm_epoch"
                    /\ outcome' = "none"
                    /\ error' = NoError
    /\ UNCHANGED disk

\* variant of count_batches: the last index of the pass instead of its length
count_batches_last_index(loader) == len(loader) - 1

\* train_fn, line 70: one pass over the loader that counts its batches
count_batches(loader) == len(loader)

\* lines 227-236 and 66-71: the loop test, the reset of the accumulators and
\* the entry of train_fn
train_model_epoch ==
    /\ pc = "tm_epoch"
    /\ IF range_has_next(epoch, args.epochs)
       THEN /\ metrics' = reset_metrics(metrics)
            /\ num_batches' = count_batches(args.train_loader)
            /\ epoch_loss_cum' = 0
            /\ batch_idx' = 0
            /\ tf_log' = << >>
            /\ ops' = << >>
            /\ trace' = Append(trace, "train")
            /\ pc' = "tf_loop"
       ELSE /\ pc' = "tm_save"
            /\ UNCHANGED <<metrics, num_batches, epoch_loss_cum, batch_idx,
                           tf_log, ops, trace>>
    /\ UNCHANGED <<entry, outcome, error, calls, args, modelVars, disk,
                   history, train_metrics, epoch, predictions, loss, vfVars,
                   epoch_logs, vf_log, vf_entry, written>>


----------------------------------------------------------------------------
(* train_fn *)

ForwardOps == <<"forward", "shape assertion", "loss">>
MetricOps == <<"metrics">>

\* variant of backprop_ops: the optimizer is stepped before the backward pass
backprop_ops_step_first ==
    <<"zero_grad", "scaler.step", "backward", "scaler.update">>

\* lines 94-98, in the order the calls are made
backprop_ops == <<"zero_grad", "backward", "scaler.step", "scaler.update">>

\* lines 88-90: every key of metrics that has a function is accumulated
accumulate(m, fns, preds, targets) ==
    [k \in DOMAIN m |->
        IF k \in fns THEN frac_add(m[k], metric_fn(k, preds, targets))
        ELSE m[k]]

\* lines 107-112: the loss is added, then every value is divided
epoch_means(m, loss_cum, n) ==
    LET with_loss == [k \in DOMAIN m \cup {"loss"} |->
                        IF k = "loss" THEN Frac(loss_cum, 1) ELSE m[k]]
    IN [k \in DOMAIN with_loss |-> frac_div(with_loss[k], n)]

CurBatch == args.train_loader.batches[batch_idx + 1]

\* lines 73-85: the next batch of the training pass: forward pass, shape
\* assertion, loss
train_fn_forward ==
    /\ pc = "tf_loop"
    /\ batch_idx < len(args.train_loader)
    /\ LET preds == model_call(params, CurBatch.data)
       IN /\ predictions' = preds
          /\ IF same_shape(preds, CurBatch.targets)
             THEN /\ loss' = loss_fn(preds, CurBatch.targets)
                  /\ ops' = ForwardOps
                  /\ pc' = "tf_metrics"
                  /\ UNCHANGED <<outcome, error>>
             ELSE /\ Raise(Err("AssertionError", "", "train_fn"))
                  /\ ops' = SubSeq(ForwardOps, 1, 2)
                  /\ UNCHANGED loss
    /\ UNCHANGED <<entry, calls, args, modelVars, disk, tmVars, num_batches,
                   epoch_loss_cum, batch_idx, vfVars, trace, tf_log,
                   epoch_logs, vf_log, vf_entry, written>>

\* lines 87-90
train_fn_metrics ==
    /\ pc = "tf_metrics"
    /\ metrics' = accumulate(metrics, args.metrics_fn, predictions,
                             CurBatch.targets)
    /\ ops' = ops \o MetricOps
    /\ pc' = "tf_backprop"
    /\ UNCHANGED <<entry, outcome, error, calls, args, modelVars, disk,
                   history, train_metrics, epoch, tfVars, vfVars, trace,
                   tf_log, epoch_logs, vf_log, vf_entry, written>>

\* lines 92-105: zero_grad, backward, optimizer step, scaler update, and the
\* loss of the batch added to the epoch's
train_fn_backprop ==
    /\ pc = "tf_backprop"
    /\ LET g == backward(zero_grad(grad), loss)
       IN /\ grad' = g
          /\ params' = optimizer_step(params, g)
          /\ opt_state' = opt_state + 1
    /\ epoch_loss_cum' = epoch_loss_cum + loss
    /\ batch_idx' = batch_idx + 1
    /\ ops' = ops \o backprop_ops
    /\ tf_log' = Append(tf_log,
                   [idx |-> batch_idx + 1,
                    loss |-> loss,
                    vals |-> [k \in args.metrics_fn |->
                                metric_fn(k, predictions, CurBatch.targets)],
                    ops |-> ops'])
    /\ pc' = "tf_loop"
    /\ UNCHANGED <<entry, outcome, error, calls, args, mode, disk, tmVars,
                   num_batches, predictions, loss, vfVars, trace, epoch_logs,
                   vf_log, vf_entry, written>>

\* lines 107-114: the training pass is over; the means are returned
train_fn_return ==
    /\ pc = "tf_loop"
    /\ batch_idx = len(args.train_loader)
    /\ IF num_batches = 0
       THEN /\ Raise(Err("ZeroDivisionError", "", "train_fn"))
            /\ metrics' = [k \in DOMAIN metrics \cup {"loss"} |->
                             IF k = "loss" THEN Frac(epoch_loss_cum, 1)
                             ELSE metrics[k]]
            /\ UNCHANGED train_metrics
       ELSE /\ metrics' = epoch_means(metrics, epoch_loss_cum, num_batches)
            /\ train_metrics' = metrics'
            /\ pc' = "tm_record"
            /\ UNCHANGED <<outcome, error>>
    /\ UNCHANGED <<entry, calls, args, modelVars, disk, history, epoch,
                   tfVars, vfVars, obsVars>>

\* lines 241-252: the epoch's values are appended to the history; validation
\* is called when there is a validation loader
train_model_record ==
    /\ pc = "tm_record"
    /\ history' = [k \in DOMAIN history |->
                     IF k \in DOMAIN train_metrics
                     THEN Append(history[k], train_metrics[k])
                     ELSE history[k]]
    /\ epoch_logs' = Append(epoch_logs, tf_log)
    /\ IF loader_truthy(args.val_loader)
       THEN /\ vargs' = [loader |-> args.val_loader, from_logits |-> TRUE,
                         thresh |-> DefaultThresh,
                         metrics_fn |-> args.metrics_fn]
            /\ pc' = "vf_start"
            /\ UNCHANGED epoch
       ELSE /\ epoch' = epoch + 1
            /\ pc' = "tm_epoch"
            /\ UNCHANGED vargs
    /\ UNCHANGED <<entry, outcome, error, calls, args, modelVars, disk,
                   metrics, train_metrics, tfVars, num_correct, num_pixels,
                   dice_score, vidx, val_result, trace, ops, tf_log, vf_log,
                   vf_entry, written>>


----------------------------------------------------------------------------
(* validation_fn *)

\* variant of binarise: a probability equal to the threshold counts as 1
binarise_inclusive(prob, thresh) == IF prob >= thresh THEN 1 ELSE 0

\* line 159: (preds > thresh).float()
binarise(prob, thresh) == IF prob > thresh THEN 1 ELSE 0

\* lines 151-159: the binary predictions of a batch
batch_probs(p, data, from_logits) ==
    LET raw == model_call(p, data)
    IN IF from_logits THEN [i \in 1..Len(raw) |-> sigmoid(raw[i])] ELSE raw

\* line 161: (preds == y).sum()
count_equal(preds, y) ==
    Cardinality({i \in 1..Len(preds) : preds[i] = y[i]})

\* metrics_fn["dice"](preds, y) on binary predictions
dice_fn(preds, y) ==
    2 * Cardinality({i \in 1..Len(preds) : preds[i] = 1 /\ y[i] = 1})

\* variant of no_grad_frame: a validation batch moves the parameters
grad_frame_step ==
    /\ params' = optimizer_step(params, 1)
    /\ UNCHANGED <<opt_state, grad>>

\* lines 143-169 run under torch.no_grad() and never touch the optimizer
no_grad_frame == UNCHANGED <<params, opt_state, grad>>

\* a caller runs validation_fn on its own
validation_fn_call ==
    /\ pc = "idle"
    /\ calls < MaxCalls
    /\ \E v \in ValidationArgs, m \in Modes :
         /\ vargs' = v
         /\ mode' = m
    /\ entry' = "validation_fn"
    /\ calls' = calls + 1
    /\ outcome' = "none"
    /\ error' = NoError
    /\ pc' = "vf_start"
    /\ args' = NoArgs
    /\ history' = EmptyDict
    /\ metrics' = EmptyDict
    /\ trace' = << >>
    /\ ResetLocals
    /\ UNCHANGED <<params, opt_state, grad, disk>>

\* lines 133-139: the counters start at 0 and the model is put in
\* evaluation mode
validation_fn_start ==
    /\ pc = "vf_start"
    /\ num_correct' = 0
    /\ num_pixels' = 0
    /\ dice_score' = 0
    /\ vidx' = 0
    /\ mode' = "eval"
    /\ vf_log' = << >>
    /\ vf_entry' = [params |-> params, opt_state |-> opt_state]
    /\ trace' = IF entry = "train_model" THEN Append(trace, "val") ELSE trace
    /\ pc' = "vf_loop"
    /\ UNCHANGED <<entry, outcome, error, calls, args, params, opt_state,
                   grad, disk, tmVars, tfVars, vargs, val_result, ops, tf_log,
                   epoch_logs, written>>

\* lines 144-169: one batch of the validation loader
validation_fn_batch ==
    /\ pc = "vf_loop"
    /\ vidx < len(vargs.loader)
    /\ LET b == vargs.loader.batches[vidx + 1]
           probs == batch_probs(params, b.data, vargs.from_logits)
           preds == [i \in 1..Len(probs) |-> binarise(probs[i], vargs.thresh)]
       IN /\ num_correct' = num_correct + count_equal(preds, b.targets)
          /\ num_pixels' = num_pixels + Len(preds)
          /\ IF "dice" \in vargs.metrics_fn
             THEN /\ dice_score' = dice_score + dice_fn(preds, b.targets)
                  /\ vidx' = vidx + 1
                  /\ vf_log' = Append(vf_log,
                                 [probs |-> probs, targets |-> b.targets,
                                  dice |-> dice_fn(preds, b.targets)])
                  /\ UNCHANGED <<pc, outcome, error>>
             ELSE /\ Raise(Err("KeyError", "dice", "validation_fn"))
                  /\ UNCHANGED <<dice_score, vidx, vf_log>>
    /\ no_grad_frame
    /\ UNCHANGED <<entry, calls, args, mode, disk, tmVars, tfVars, vargs,
                   val_result, trace, ops, tf_log, epoch_logs, vf_entry,
                   written>>

\* lines 171-178: the two ratios, the model back in training mode, return
validation_fn_return ==
    /\ pc = "vf_loop"
    /\ vidx = len(vargs.loader)
    /\ IF num_pixels = 0
       THEN /\ Raise(Err("ZeroDivisionError", "", "validation_fn"))
            /\ UNCHANGED <<val_result, mode>>
       ELSE /\ val_result' = [accu |-> Frac(num_correct, num_pixels),
                              dice |-> Frac(dice_score, len(vargs.loader))]
            /\ mode' = "train"
            /\ IF entry = "train_model"
               THEN /\ pc' = "tm_val_record"
                    /\ UNCHANGED outcome
               ELSE /\ pc' = "idle"
                    /\ outcome' = "returned"
            /\ UNCHANGED error
    /\ UNCHANGED <<entry, calls, args, params, opt_state, grad, disk, tmVars,
                   tfVars, vargs, num_correct, num_pixels, dice_score, vidx,
                   obsVars>>

----------------------------------------------------------------------------
(* train_model, after validation and after the last epoch *)

\* lines 256-259: history['val_accuracy'] and history['val_dice'] receive the
\* epoch's values; a key that was not initialised is a KeyError
train_model_val_record ==
    /\ pc = "tm_val_record"
    /\ IF "val_accuracy" \notin DOMAIN history
       THEN /\ Raise(Err("KeyError", "val_accuracy", "train_model"))
            /\ UNCHANGED <<history, epoch>>
       ELSE LET h1 == [history EXCEPT
                         !["val_accuracy"] = Append(@, val_result.accu)]
            IN IF "val_dice" \notin DOMAIN history
               THEN /\ Raise(Err("KeyError", "val_dice", "train_model"))
                    /\ history' = h1
                    /\ UNCHANGED epoch
               ELSE /\ history' = [h1 EXCEPT
                                     !["val_dice"] = Append(@, val_result.dice)]
                    /\ epoch' = epoch + 1
                    /\ pc' = "tm_epoch"
                    /\ UNCHANGED <<outcome, error>>
    /\ UNCHANGED <<entry, calls, args, modelVars, disk, metrics,
                   train_metrics, tfVars, vfVars, obsVars>>

\* lines 264-275: the optional save of the final state, and the return
train_model_finish ==
    /\ pc = "tm_save"
    /\ IF args.save_model
       THEN \E t \in 1..MaxTime :
              LET name == checkpoint_name(args.save_checkpoint_path,
                                          args.save_checkpoint_name, t)
                  checkpoint == [state_dict |-> params, optimizer |-> opt_state]
              IN /\ disk' = torch_save(disk, name, checkpoint)
                 /\ written' = Append(written, [name |-> name, time |-> t])
                 /\ trace' = Append(trace, "save")
       ELSE UNCHANGED <<disk, written, trace>>
    /\ pc' = "idle"
    /\ outcome' = "returned"
    /\ UNCHANGED <<entry, error, calls, args, modelVars, tmVars, tfVars,
                   vfVars, ops, tf_log, epoch_logs, vf_log, vf_entry>>

----------------------------------------------------------------------------

Init ==
    /\ pc = "idle"
    /\ entry = "none"
    /\ outcome = "none"
    /\ error = NoError
    /\ calls = 0
    /\ args = NoArgs
    /\ params = 0
    /\ mode = "train"
    /\ opt_state = 0
    /\ grad = 0
    /\ disk = {}
    /\ history = EmptyDict
    /\ metrics = EmptyDict
    /\ train_metrics = EmptyDict
    /\ epoch = 0
    /\ num_batches = 0
    /\ epoch_loss_cum = 0
    /\ batch_idx = 0
    /\ predictions = << >>
    /\ loss = 0
    /\ vargs = NoVArgs
    /\ num_correct = 0
    /\ num_pixels = 0
    /\ dice_score = 0
    /\ vidx = 0
    /\ val_result = [accu |-> Zero, dice |-> Zero]
    /\ trace = << >>
    /\ ops = << >>
    /\ tf_log = << >>
    /\ epoch_logs = << >>
    /\ vf_log = << >>
    /\ vf_entry = [params |-> 0, opt_state |-> 0]
    /\ written = << >>

Next ==
    \/ train_model_begin
    \/ train_model_epoch
    \/ train_fn_forward
    \/ train_fn_metrics
    \/ train_fn_backprop
    \/ train_fn_return
    \/ train_model_record
    \/ validation_fn_call
    \/ validation_fn_start
    \/ validation_fn_batch
    \/ validation_fn_return
    \/ train_model_val_record
    \/ train_model_finish

Spec == Init /\ [][Next]_vars


----------------------------------------------------------------------------
(* Observations used by the properties *)

IsPrefix(a, b) == Len(a) <= Len(b) /\ SubSeq(b, 1, Len(a)) = a

LossSum(log) == SumSeq([i \in 1..Len(log) |-> log[i].loss])
ValSum(log, k) == SumSeq([i \in 1..Len(log) |-> log[i].vals[k]])

\* batches of a train_fn call on which the optimizer was stepped
StepsTaken(log) ==
    Cardinality({i \in 1..Len(log) : "scaler.step" \in Range(log[i].ops)})

\* value v is the mean of key k over the batches of log
IsMeanOf(v, log, k, fns) ==
    IF k = "loss" THEN FracEq(v, Frac(LossSum(log), StepsTaken(log)))
    ELSE IF k \in fns THEN FracEq(v, Frac(ValSum(log, k), StepsTaken(log)))
    ELSE v.den # 0 /\ v.num = 0

TrainFnReturned == pc = "tm_record"
TrainModelReturned == pc = "idle" /\ entry = "train_model" /\ outcome = "returned"
TrainModelRaised == pc = "idle" /\ entry = "train_model" /\ outcome = "raised"
ValidationReturned ==
    \/ pc = "tm_val_record"
    \/ pc = "idle" /\ entry = "validation_fn" /\ outcome = "returned"
ValidationRaised == pc = "idle" /\ error.in_fn = "validation_fn"

----------------------------------------------------------------------------
(* Properties *)

\* C1: when train_fn returns, 'loss' and every key of metrics that has a
\* function hold the sum of the per-batch values divided by the number of
\* batches the optimizer was stepped on, which is num_batches; a key with no
\* function holds 0.
C1_TrainFnMeans ==
    TrainFnReturned =>
        /\ num_batches = StepsTaken(tf_log)
        /\ DOMAIN train_metrics = Range(args.metrics) \cup {"loss"}
        /\ \A k \in DOMAIN train_metrics :
              IsMeanOf(train_metrics[k], tf_log, k, args.metrics_fn)

C1_Witness ==
    /\ TrainFnReturned
    /\ Len(tf_log) = 2
    /\ train_metrics["loss"].num > 0
    /\ \E k \in DOMAIN train_metrics :
          k # "loss" /\ k \in args.metrics_fn /\ train_metrics[k].num > 0
    /\ \E k \in DOMAIN train_metrics : k # "loss" /\ k \notin args.metrics_fn

\* C2: when train_model returns after N epochs, history['loss'] and the
\* history of every requested metric hold N values, the e-th being the mean
\* over the batches of epoch e alone.
C2_HistoryPerEpoch ==
    TrainModelReturned =>
        /\ Len(epoch_logs) = args.epochs
        /\ \A k \in {"loss"} \cup Range(args.metrics) :
              /\ k \in DOMAIN history
              /\ Len(history[k]) = args.epochs
              /\ \A e \in 1..Len(history[k]) :
                    e <= Len(epoch_logs) /\
                    IsMeanOf(history[k][e], epoch_logs[e], k, args.metrics_fn)

C2_Witness ==
    /\ TrainModelReturned
    /\ args.epochs = 2
    /\ \E k \in Range(args.metrics) :
          /\ k # "loss" /\ k \in args.metrics_fn
          /\ Len(history[k]) = 2
          /\ history[k][1].num > 0
    /\ Len(epoch_logs[2]) = 2

\* the events of a complete run with arguments a
RECURSIVE Epochs(_, _)
Epochs(n, one) == IF n = 0 THEN << >> ELSE one \o Epochs(n - 1, one)

ExpectedTrace(a) ==
    (IF a.load_model THEN <<"load">> ELSE << >>)
    \o Epochs(a.epochs,
              <<"train">> \o (IF loader_truthy(a.val_loader)
                              THEN <<"val">> ELSE << >>))
    \o (IF a.save_model THEN <<"save">> ELSE << >>)

\* C5: a run of train_model loads once iff load_model before any training,
\* then runs train_fn and (iff the validation loader is truthy)
\* validation_fn once per epoch, in that order, then saves once iff
\* save_model; a run that raises saves nothing.
C5_EventOrder ==
    entry = "train_model" =>
        /\ IsPrefix(trace, ExpectedTrace(args))
        /\ TrainModelReturned => trace = ExpectedTrace(args)
        /\ TrainModelRaised => "save" \notin Range(trace) /\ written = << >>

C5_Witness ==
    /\ TrainModelReturned
    /\ trace = <<"load", "train", "val", "save">>

StepOrder ==
    <<"forward", "shape assertion", "loss", "metrics", "zero_grad",
      "backward", "scaler.step", "scaler.update">>

\* C6: train_fn trains on every batch of one pass exactly once, the calls
\* for a batch are made in the order of StepOrder, and the optimizer steps
\* number the batches of the loader.
C6_BatchOrder ==
    /\ IsPrefix(ops, StepOrder)
    /\ TrainFnReturned =>
          /\ [i \in 1..Len(tf_log) |-> tf_log[i].idx]
                = [i \in 1..len(args.train_loader) |-> i]
          /\ \A i \in 1..Len(tf_log) : tf_log[i].ops = StepOrder
          /\ StepsTaken(tf_log) = len(args.train_loader)

C6_Witness ==
    /\ TrainFnReturned
    /\ Len(tf_log) = 2
    /\ epoch = 1

\* C7: validation_fn changes neither the parameters nor the optimizer state:
\* at every point of a call, and when it is exited, both are what they were
\* on entry.
C7_ValidationFrame ==
    (pc = "vf_loop" \/ ValidationReturned \/ ValidationRaised) =>
        /\ params = vf_entry.params
        /\ opt_state = vf_entry.opt_state

C7_Witness ==
    /\ pc = "tm_val_record"
    /\ Len(vf_log) = 2
    /\ opt_state > 0
    /\ params > 0

\* pixels of a batch whose prediction, 1 iff the probability is strictly
\* above the threshold, is the target
Correct(b, thresh) ==
    Cardinality({i \in 1..Len(b.probs) :
                   (b.probs[i] > thresh) <=> (b.targets[i] = 1)})

\* C8: validation_fn returns the share of correctly predicted pixels over
\* all batches, and the sum of the per-batch dice values over the number of
\* batches processed.
C8_ValidationResult ==
    ValidationReturned =>
        /\ Len(vf_log) = len(vargs.loader)
        /\ FracEq(val_result.accu,
                  Frac(SumSeq([i \in 1..Len(vf_log) |->
                                 Correct(vf_log[i], vargs.thresh)]),
                       SumSeq([i \in 1..Len(vf_log) |->
                                 Len(vf_log[i].probs)])))
        /\ FracEq(val_result.dice,
                  Frac(SumSeq([i \in 1..Len(vf_log) |-> vf_log[i].dice]),
                       Len(vf_log)))

C8_Witness ==
    /\ ValidationReturned
    /\ Len(vf_log) = 2
    /\ \E i \in 1..Len(vf_log) :
          \E j \in 1..Len(vf_log[i].probs) :
             vf_log[i].probs[j] = vargs.thresh
    /\ val_result.accu.num > 0
    /\ val_result.accu.num < val_result.accu.den


Last(seq) == seq[Len(seq)]

\* artifact `name` lies under the directory `dir`
UnderDir(name, dir) ==
    /\ truthy(dir)
    /\ LET d == IF Last(dir.s) = "/" THEN dir.s ELSE dir.s \o <<"/">>
       IN Len(name) > Len(d) /\ SubSeq(name, 1, Len(d)) = d

EndsWithSeparator(dir) == truthy(dir) /\ Last(dir.s) = "/"

Saved == TrainModelReturned /\ args.save_model

\* C9 as amended: a save writes exactly one artifact, holding the final
\* state: at the given filename when it is non-empty, otherwise at dirname
\* followed by the timestamp and the suffix.  The artifact lies under
\* save_checkpoint_path when no name is given and the path ends with a
\* separator; a given name is used as it is, whatever the path.
C9_SaveName ==
    /\ TrainModelReturned /\ ~args.save_model => written = << >>
    /\ Saved =>
          /\ Len(written) = 1
          /\ LET w == written[1]
                 dir == args.save_checkpoint_path
                 given == args.save_checkpoint_name
             IN /\ IF given.tag = "str" /\ given.s # << >>
                   THEN w.name = given.s
                   ELSE w.name = format(dir) \o <<strftime(w.time) \o Suffix>>
                /\ (~truthy(given) /\ EndsWithSeparator(dir))
                      => UnderDir(w.name, dir)
                /\ [name |-> w.name, state_dict |-> params,
                    optimizer |-> opt_state] \in disk
                /\ Cardinality({f \in disk : f.name = w.name}) = 1

C9_Witness ==
    /\ Saved
    /\ truthy(args.save_checkpoint_name)
    /\ EndsWithSeparator(args.save_checkpoint_path)
    /\ ~UnderDir(written[1].name, args.save_checkpoint_path)
    /\ opt_state > 0

\* C9 as stated: every checkpoint saved through train_model lies under the
\* directory save_checkpoint_path, whether or not a name is given.
C9_AlwaysUnderSavePath ==
    Saved =>
        /\ Len(written) = 1
        /\ UnderDir(written[1].name, args.save_checkpoint_path)

\* keys of the history that belong to validation
ValKeys(h) ==
    {k \in DOMAIN h :
        k \in {"val_" \o j : j \in {"loss"} \cup Range(args.metrics)}
                 \cup {"val_accuracy", "val_dice"}}

\* C3 as stated: with a validation loader, whatever `metrics` is, the
\* bookkeeping of validation raises no KeyError and, when train_model
\* returns, every validation key of the history holds N values.
C3_ValidationHistory ==
    (entry = "train_model" /\ loader_truthy(args.val_loader)) =>
        /\ ~(TrainModelRaised /\ error.type = "KeyError"
                /\ error.in_fn = "train_model")
        /\ TrainModelReturned =>
              \A k \in ValKeys(history) : Len(history[k]) = args.epochs

\* C4 as stated: after the load of a checkpoint, before the first training
\* step, the parameters and the optimizer state are the saved ones.
C4_RoundTrip ==
    (entry = "train_model" /\ pc = "tm_epoch" /\ epoch = 0 /\ args.load_model) =>
        LET checkpoint == torch_load(disk, args.load_checkpoint_path)
        IN /\ params = checkpoint.state_dict
           /\ opt_state = checkpoint.optimizer

\* C10 as stated: in train_model every training batch runs in training
\* mode, every validation pass in evaluation mode, and validation_fn leaves
\* the model in training mode however it is exited.
C10_ModelMode ==
    /\ (entry = "train_model" /\ pc \in {"tf_metrics", "tf_backprop"})
          => mode = "train"
    /\ pc = "vf_loop" => mode = "eval"
    /\ (ValidationReturned \/ ValidationRaised) => mode = "train"

====
